---- MODULE Spec2Model ----
(***************************************************************************)
(* Model of the product-catalog REST API of amazon-app-api:                *)
(*   core/models.py        Tag, Category, Product, product_image_file_path *)
(*   product/serializers.py  Tag/Category/Product/ProductImage serializers *)
(*   product/views.py      the four viewsets                               *)
(*   product/urls.py       the router (which viewset serves which route)   *)
(* The entity store is the three tables and the Product<->Tag association  *)
(* (kept as the set-valued column "tags" of a product row).  Every request *)
(* is one atomic action that reads the store, possibly writes it, and      *)
(* leaves the request and its response in the variables request/response.  *)
(* A list response body is a bag of serialized rows: the querysets of the  *)
(* views are bags of row ids, so that the row multiplication of an SQL     *)
(* join and the effect of distinct() are both visible.  The order of rows  *)
(* in a body is not recorded.                                              *)
(* Spec serves the requests one after the other.  ConcurrentSpec serves    *)
(* them side by side: there a product write is the two commits the code    *)
(* makes (the row, then its tags), and reads are served between them.      *)
(***************************************************************************)
EXTENDS Bags, FiniteSets, Integers, Sequences, TLC

\* ---------------------------------------------------------------- bounds
MaxTags == 2          \* tag rows ever inserted
MaxCategories == 2    \* category rows ever inserted
MaxProducts == 2      \* product rows ever inserted
MaxUploads == 2       \* image files ever written to the binary-object store
MaxRows == 4          \* rows ever inserted, over the three tables

\* ------------------------------------------------------------- constants
HTTP_200_OK == 200
HTTP_201_CREATED == 201
HTTP_204_NO_CONTENT == 204
HTTP_400_BAD_REQUEST == 400
HTTP_401_UNAUTHORIZED == 401
HTTP_404_NOT_FOUND == 404
HTTP_500_SERVER_ERROR == 500

\* null of a nullable foreign key (row ids start at 1)
NULL == 0
\* null of the nullable image column (a stored path is <<uuid, ext>>)
NoImage == <<>>
\* a key that the payload / the query string does not carry
ABSENT == "<absent>"

Users == {"u1", "u2"}
\* the principal of a request that carries no valid credentials
AnonymousUser == "anon"
Callers == Users \cup {AnonymousUser}

VARIABLES
    tags,         \* Tag table:      id -> [name, user]
    categories,   \* Category table: id -> [name, user]
    products,     \* Product table:  id -> [user, title, time_minutes, price,
                  \*                        link, categories, tags, image]
    storage,      \* binary-object store: the set of stored file paths
    nextId,       \* [tag, category, product, uuid]: next auto-increment id
    createdBy,    \* history: <<table, id>> -> principal of the CREATE request
    request,      \* the last request served
    response,     \* its response: [status, data]
    inflight      \* a product write between its two commits (the row is
                  \* saved, its tags are still to be set), or NoWrite

db == <<tags, categories, products, storage, nextId>>
vars == <<tags, categories, products, storage, nextId, createdBy, request, response,
          inflight>>

\* ------------------------------------------------------ queryset algebra
\* A queryset is a bag of row ids: one copy per row the SQL would return.

\* Model.objects.all()
ObjectsAll(table) == [id \in DOMAIN table |-> 1]

\* Rows of a bag whose multiplicity is zero are not in it.
Compact(qs) == [id \in {i \in DOMAIN qs : qs[i] > 0} |-> qs[id]]

\* queryset.filter(user=u)
FilterUser(qs, table, u) ==
    [id \in {i \in DOMAIN qs : table[i].user = u} |-> qs[id]]

\* queryset.distinct(): SELECT DISTINCT over the columns of the row itself
\* (NoDistinct: the queryset without it)
NoDistinct(qs) == qs
Distinct(qs) == [id \in DOMAIN qs |-> 1]

\* Tag.objects.filter(product__isnull=False): inner join with the
\* association table, one row per product that carries the tag
TagProductJoin(qs) ==
    Compact([id \in DOMAIN qs |->
        qs[id] * Cardinality({p \in DOMAIN products : id \in products[p].tags})])

\* Category.objects.filter(product__isnull=False): inner join with the
\* product table over the foreign key, one row per product of the category
CategoryProductJoin(qs) ==
    Compact([id \in DOMAIN qs |->
        qs[id] * Cardinality({p \in DOMAIN products : products[p].categories = id})])

\* Product.objects.filter(tags__id__in=ids): inner join with the association
\* table, one row per matching association
\* (FilterTagsAll: a filter that asks for every given tag)
FilterTagsAll(qs, ids) ==
    Compact([id \in DOMAIN qs |->
        qs[id] * (IF ids \subseteq products[id].tags THEN 1 ELSE 0)])
FilterTagsIn(qs, ids) ==
    Compact([id \in DOMAIN qs |->
        qs[id] * Cardinality(products[id].tags \cap ids)])

\* Product.objects.filter(categories__id__in=ids): the foreign key column
FilterCategoriesIn(qs, ids) ==
    [id \in {i \in DOMAIN qs : products[i].categories \in ids /\
                               products[i].categories # NULL} |-> qs[id]]

\* rows of a queryset, serialized one by one (many=True); ser maps a row id
\* to its serialized form
SerializeMany(qs, ser) ==
    LET rows == {ser[id] : id \in DOMAIN qs}
    IN  [r \in rows |-> LET i == CHOOSE j \in DOMAIN qs : ser[j] = r IN qs[i]]

\* bag with one row
One(r) == SetToBag({r})

\* ---------------------------------------------------------- query string
\* int(): the decimal strings the requests use; anything else raises
IntOf == ("0" :> 0) @@ ("1" :> 1) @@ ("2" :> 2) @@ ("3" :> 3)
IsInt(s) == s \in DOMAIN IntOf

\* ProductViewset._params_to_ints: the comma-separated tokens of the
\* parameter (given here already split), each converted by int()
ParamsOk(qs) == \A i \in 1..Len(qs) : IsInt(qs[i])
params_to_ints(qs) == {IntOf[qs[i]] : i \in 1..Len(qs)}

\* ----------------------------------------------------------- serializers
\* TagSerializer / CategorySerializer: fields (id, name)
TagSerializer(id) == [id |-> id, name |-> tags[id].name]
CategorySerializer(id) == [id |-> id, name |-> categories[id].name]

\* is_valid() of Tag/CategorySerializer: name is a required CharField that
\* may not be blank; no other key of the payload is a field
\* (AttrAcceptsBlank: the check with blank=True on the model field)
AttrAcceptsBlank(data) == "name" \in DOMAIN data
AttrIsValid(data) == "name" \in DOMAIN data /\ data.name # ""

\* ------------------------------------------------------------ permissions
\* product.permissions.IsSupplierOrReadOnly (imported by views.py; the module
\* is not among the sources).  After the specification: the tag and category
\* routes answer a call without credentials with 401 and admit every
\* authenticated caller.
IsSupplierOrReadOnly(caller) == caller # AnonymousUser

\* rest_framework.permissions.IsAuthenticated with TokenAuthentication
IsAuthenticated(caller) == caller # AnonymousUser

\* the permission of a viewset that names none (MyProductViewset): the
\* project default, which the settings module sets (not among the sources).
\* After the specification: the route is readable by every caller.
DefaultPermission(caller) == TRUE

\* --------------------------------------------------------------- payloads
Has(data, k) == k \in DOMAIN data

AttrNames == {"Vegan"}
\* payloads of POST /tags and POST /categories: a name (possibly blank),
\* possibly with an owner field
AttrPayloads ==
    {[name |-> n] : n \in AttrNames \cup {""}}
    \cup {[name |-> n, user |-> u] : n \in AttrNames, u \in Users}

\* ?assigned_only=: absent, a decimal string, or not a number
AssignedOnlyParams == {ABSENT, "0", "1", "x"}

\* --------------------------------------------------- BaseProductAttrViewset
\* serializer.save(user=self.request.user): the owner of a created row
\* (SaveUserFromPayload: a save that lets the payload name the owner)
SaveUserFromPayload(caller, data) == IF Has(data, "user") THEN data.user ELSE caller
SaveUser(caller, data) == caller

\* bool(int(query_params.get('assigned_only', 0)))
AssignedOnlyOk(param) == param = ABSENT \/ IsInt(param)
AssignedOnly(param) == param # ABSENT /\ IntOf[param] # 0

\* BaseProductAttrViewset.get_queryset
\* (joined: the table's queryset after filter(product__isnull=False))
AttrQueryset(table, joined, user, assigned_only) ==
    LET queryset == ObjectsAll(table)
        assigned == IF assigned_only THEN joined ELSE queryset
    IN  Distinct(FilterUser(assigned, table, user))

Reply(status, data) == [status |-> status, data |-> data]

\* an INSERT is explored while the store has room for the row
RowsInserted == (nextId.tag - 1) + (nextId.category - 1) + (nextId.product - 1)
HasRoom == RowsInserted < MaxRows

\* The server takes one request at a time: it is idle, or it holds the
\* request it has just served together with the response.
NoRequest == [view |-> "none", action |-> "none", user |-> AnonymousUser]
NoResponse == [status |-> 0, data |-> EmptyBag]
Idle == request = NoRequest
NoWrite == [step |-> "none"]

\* GET /tags and GET /categories
AttrListResponse(table, joined, ser, caller, param) ==
    IF ~IsSupplierOrReadOnly(caller) THEN Reply(HTTP_401_UNAUTHORIZED, EmptyBag)
    ELSE IF ~AssignedOnlyOk(param) THEN Reply(HTTP_500_SERVER_ERROR, EmptyBag)
    ELSE Reply(HTTP_200_OK,
               SerializeMany(AttrQueryset(table, joined, caller, AssignedOnly(param)), ser))

TagViewSet_list(caller, param) ==
    /\ Idle /\ UNCHANGED inflight
    /\ request' = [view |-> "tags", action |-> "list", user |-> caller,
                   assigned_only |-> param]
    /\ response' = AttrListResponse(tags, TagProductJoin(ObjectsAll(tags)),
                                    [id \in DOMAIN tags |-> TagSerializer(id)],
                                    caller, param)
    /\ UNCHANGED <<db, createdBy>>

CategoryViewSet_list(caller, param) ==
    /\ Idle /\ UNCHANGED inflight
    /\ request' = [view |-> "categories", action |-> "list", user |-> caller,
                   assigned_only |-> param]
    /\ response' = AttrListResponse(categories,
                                    CategoryProductJoin(ObjectsAll(categories)),
                                    [id \in DOMAIN categories |-> CategorySerializer(id)],
                                    caller, param)
    /\ UNCHANGED <<db, createdBy>>

\* POST /tags
TagViewSet_create(caller, data) ==
    /\ Idle /\ UNCHANGED inflight
    /\ request' = [view |-> "tags", action |-> "create", user |-> caller, data |-> data]
    /\ IF ~IsSupplierOrReadOnly(caller)
       THEN /\ response' = Reply(HTTP_401_UNAUTHORIZED, EmptyBag)
            /\ UNCHANGED <<db, createdBy>>
       ELSE IF ~AttrIsValid(data)
       THEN /\ response' = Reply(HTTP_400_BAD_REQUEST, EmptyBag)
            /\ UNCHANGED <<db, createdBy>>
       ELSE LET id == nextId.tag IN
            /\ id <= MaxTags /\ HasRoom
            /\ tags' = tags @@ (id :> [name |-> data.name, user |-> SaveUser(caller, data)])
            /\ nextId' = [nextId EXCEPT !.tag = id + 1]
            /\ createdBy' = createdBy @@ (<<"tag", id>> :> caller)
            /\ response' = Reply(HTTP_201_CREATED, One([id |-> id, name |-> data.name]))
            /\ UNCHANGED <<categories, products, storage>>

\* POST /categories
CategoryViewSet_create(caller, data) ==
    /\ Idle /\ UNCHANGED inflight
    /\ request' = [view |-> "categories", action |-> "create", user |-> caller,
                   data |-> data]
    /\ IF ~IsSupplierOrReadOnly(caller)
       THEN /\ response' = Reply(HTTP_401_UNAUTHORIZED, EmptyBag)
            /\ UNCHANGED <<db, createdBy>>
       ELSE IF ~AttrIsValid(data)
       THEN /\ response' = Reply(HTTP_400_BAD_REQUEST, EmptyBag)
            /\ UNCHANGED <<db, createdBy>>
       ELSE LET id == nextId.category IN
            /\ id <= MaxCategories /\ HasRoom
            /\ categories' = categories @@
                   (id :> [name |-> data.name, user |-> SaveUser(caller, data)])
            /\ nextId' = [nextId EXCEPT !.category = id + 1]
            /\ createdBy' = createdBy @@ (<<"category", id>> :> caller)
            /\ response' = Reply(HTTP_201_CREATED, One([id |-> id, name |-> data.name]))
            /\ UNCHANGED <<tags, products, storage>>

\* ------------------------------------------------------- ProductSerializer
\* Meta.fields of ProductSerializer that a payload can write
ProductFields == {"title", "categories", "tags", "time_minutes", "price", "link"}

\* every declared or model-derived field is required, except link (blank=True)
Required(k) == k \in {"title", "categories", "tags", "time_minutes", "price"}

\* Field.get_value: does the field get a value from the payload.  A form
\* payload (multipart) that is not a partial update gives a missing
\* CharField '' and a missing many-related field the empty list; a JSON
\* payload, and every partial update, gives a missing field nothing.
Supplied(data, k, html, partial) ==
    \/ Has(data, k)
    \/ html /\ ~partial /\ k \in {"title", "link", "tags"}

Value(data, k) == IF Has(data, k) THEN data[k] ELSE IF k = "tags" THEN {} ELSE ""

\* DecimalField(max_digits=5, decimal_places=2), the price in hundredths:
\* at most three digits before the point
DecimalOk(cents) == -99999 <= cents /\ cents <= 99999

\* to_internal_value of each field
ValueOk(k, v) ==
    CASE k = "title" -> v # ""
      [] k = "link" -> TRUE
      [] k = "time_minutes" -> v \in Int
      [] k = "price" -> DecimalOk(v)
      [] k = "categories" -> v \in DOMAIN categories
      [] k = "tags" -> v \subseteq DOMAIN tags

FieldOk(data, k, html, partial) ==
    IF Supplied(data, k, html, partial) THEN ValueOk(k, Value(data, k))
    ELSE partial \/ ~Required(k)

\* ProductSerializer.is_valid()
ProductIsValid(data, html, partial) ==
    \A k \in ProductFields : FieldOk(data, k, html, partial)

\* serializer.validated_data
ValidatedData(data, html, partial) ==
    [k \in {f \in ProductFields : Supplied(data, f, html, partial)} |-> Value(data, k)]

\* ModelSerializer.create with save(user=...): the new row
ProductCreate(validated, user) ==
    [user |-> user,
     title |-> validated.title,
     time_minutes |-> validated.time_minutes,
     price |-> validated.price,
     link |-> IF Has(validated, "link") THEN validated.link ELSE "",
     categories |-> IF Has(validated, "categories") THEN validated.categories ELSE NULL,
     tags |-> IF Has(validated, "tags") THEN validated.tags ELSE {},
     image |-> NoImage]

\* ModelSerializer.update: every validated field is assigned, the rest kept;
\* an assigned many-to-many field replaces the associations
ProductUpdate(row, validated) ==
    [f \in DOMAIN row |-> IF Has(validated, f) THEN validated[f] ELSE row[f]]

\* ProductSerializer: the reference form
ProductSerializer(id) ==
    [id |-> id,
     title |-> products[id].title,
     categories |-> products[id].categories,
     tags |-> products[id].tags,
     time_minutes |-> products[id].time_minutes,
     price |-> products[id].price,
     link |-> products[id].link]

\* the reference form of a row that is not yet in the table
SerializeRow(id, row) ==
    [id |-> id, title |-> row.title, categories |-> row.categories, tags |-> row.tags,
     time_minutes |-> row.time_minutes, price |-> row.price, link |-> row.link]

\* ProductDetailSerializer: the nested form (categories: no or one object)
ProductDetailSerializer(id) ==
    [id |-> id,
     title |-> products[id].title,
     categories |-> {CategorySerializer(c) : c \in {products[id].categories} \ {NULL}},
     tags |-> {TagSerializer(t) : t \in products[id].tags},
     time_minutes |-> products[id].time_minutes,
     price |-> products[id].price,
     link |-> products[id].link]

\* ProductImageSerializer: fields (id, image)
ProductImageSerializer(id, image) == [id |-> id, image |-> image]

\* --------------------------------------------------------- ProductViewset
\* ProductViewset.get_queryset
ProductQuerysetOk(tagsParam, categoriesParam) ==
    /\ tagsParam # <<>> => ParamsOk(tagsParam)
    /\ categoriesParam # <<>> => ParamsOk(categoriesParam)

ProductQueryset(user, tagsParam, categoriesParam) ==
    LET queryset == ObjectsAll(products)
        byTags == IF tagsParam # <<>>
                  THEN FilterTagsIn(queryset, params_to_ints(tagsParam))
                  ELSE queryset
        byCategories == IF categoriesParam # <<>>
                        THEN FilterCategoriesIn(byTags, params_to_ints(categoriesParam))
                        ELSE byTags
    IN  FilterUser(byCategories, products, user)

\* GET /myproducts/?tags=..&categories=..
ProductViewset_list(caller, tagsParam, categoriesParam) ==
    /\ Idle /\ UNCHANGED inflight
    /\ request' = [view |-> "myproducts", action |-> "list", user |-> caller,
                   tags |-> tagsParam, categories |-> categoriesParam]
    /\ response' =
        IF ~IsAuthenticated(caller) THEN Reply(HTTP_401_UNAUTHORIZED, EmptyBag)
        ELSE IF ~ProductQuerysetOk(tagsParam, categoriesParam)
        THEN Reply(HTTP_500_SERVER_ERROR, EmptyBag)
        ELSE Reply(HTTP_200_OK,
                   SerializeMany(ProductQueryset(caller, tagsParam, categoriesParam),
                                 [id \in DOMAIN products |-> ProductSerializer(id)]))
    /\ UNCHANGED <<db, createdBy>>

\* get_object(): the row of the caller's queryset with that key, or 404
GetObjectOk(caller, pk) == pk \in DOMAIN ProductQueryset(caller, <<>>, <<>>)

\* GET /myproducts/{pk}/
ProductViewset_retrieve(caller, pk) ==
    /\ Idle /\ UNCHANGED inflight
    /\ request' = [view |-> "myproducts", action |-> "retrieve", user |-> caller,
                   pk |-> pk]
    /\ response' =
        IF ~IsAuthenticated(caller) THEN Reply(HTTP_401_UNAUTHORIZED, EmptyBag)
        ELSE IF ~GetObjectOk(caller, pk) THEN Reply(HTTP_404_NOT_FOUND, EmptyBag)
        ELSE Reply(HTTP_200_OK, One(ProductDetailSerializer(pk)))
    /\ UNCHANGED <<db, createdBy>>

\* POST /myproducts/
ProductViewset_create(caller, data, html) ==
    /\ Idle /\ UNCHANGED inflight
    /\ request' = [view |-> "myproducts", action |-> "create", user |-> caller,
                   data |-> data, html |-> html]
    /\ IF ~IsAuthenticated(caller)
       THEN /\ response' = Reply(HTTP_401_UNAUTHORIZED, EmptyBag)
            /\ UNCHANGED <<db, createdBy>>
       ELSE IF ~ProductIsValid(data, html, FALSE)
       THEN /\ response' = Reply(HTTP_400_BAD_REQUEST, EmptyBag)
            /\ UNCHANGED <<db, createdBy>>
       ELSE LET id == nextId.product
                row == ProductCreate(ValidatedData(data, html, FALSE),
                                     SaveUser(caller, data))
            IN  /\ id <= MaxProducts /\ HasRoom
                /\ products' = products @@ (id :> row)
                /\ nextId' = [nextId EXCEPT !.product = id + 1]
                /\ createdBy' = createdBy @@ (<<"product", id>> :> caller)
                /\ response' = Reply(HTTP_201_CREATED, One(SerializeRow(id, row)))
                /\ UNCHANGED <<tags, categories, storage>>

\* PUT (partial = FALSE) and PATCH (partial = TRUE) /myproducts/{pk}/
ProductUpdateRequest(caller, pk, data, html, partial) ==
    /\ Idle /\ UNCHANGED inflight
    /\ request' = [view |-> "myproducts",
                   action |-> IF partial THEN "partial_update" ELSE "update",
                   user |-> caller, pk |-> pk, data |-> data, html |-> html]
    /\ IF ~IsAuthenticated(caller)
       THEN /\ response' = Reply(HTTP_401_UNAUTHORIZED, EmptyBag)
            /\ UNCHANGED <<db, createdBy>>
       ELSE IF ~GetObjectOk(caller, pk)
       THEN /\ response' = Reply(HTTP_404_NOT_FOUND, EmptyBag)
            /\ UNCHANGED <<db, createdBy>>
       ELSE IF ~ProductIsValid(data, html, partial)
       THEN /\ response' = Reply(HTTP_400_BAD_REQUEST, EmptyBag)
            /\ UNCHANGED <<db, createdBy>>
       ELSE LET row == ProductUpdate(products[pk], ValidatedData(data, html, partial))
            IN  /\ products' = [products EXCEPT ![pk] = row]
                /\ response' = Reply(HTTP_200_OK, One(SerializeRow(pk, row)))
                /\ UNCHANGED <<tags, categories, storage, nextId, createdBy>>

ProductViewset_update(caller, pk, data, html) ==
    ProductUpdateRequest(caller, pk, data, html, FALSE)

ProductViewset_partial_update(caller, pk, data, html) ==
    ProductUpdateRequest(caller, pk, data, html, TRUE)

\* DELETE /myproducts/{pk}/ (the stored image file stays in the store)
ProductViewset_destroy(caller, pk) ==
    /\ Idle /\ UNCHANGED inflight
    /\ request' = [view |-> "myproducts", action |-> "destroy", user |-> caller,
                   pk |-> pk]
    /\ IF ~IsAuthenticated(caller)
       THEN /\ response' = Reply(HTTP_401_UNAUTHORIZED, EmptyBag)
            /\ UNCHANGED <<db, createdBy>>
       ELSE IF ~GetObjectOk(caller, pk)
       THEN /\ response' = Reply(HTTP_404_NOT_FOUND, EmptyBag)
            /\ UNCHANGED <<db, createdBy>>
       ELSE /\ products' = [id \in DOMAIN products \ {pk} |-> products[id]]
            /\ createdBy' = [k \in DOMAIN createdBy \ {<<"product", pk>>} |-> createdBy[k]]
            /\ response' = Reply(HTTP_204_NO_CONTENT, EmptyBag)
            /\ UNCHANGED <<tags, categories, storage, nextId>>

\* ------------------------------------------------------------ image upload
\* core.models.product_image_file_path: the extension is the text after the
\* last dot of the uploaded file's name (the name given as its dot-separated
\* parts), the base name a fresh uuid4
product_image_file_path(filename, uuid) ==
    LET ext == filename[Len(filename)]
    IN  <<"uploads/product/", uuid, ext>>

\* ProductImageSerializer.is_valid(): image is not required (null=True); a
\* supplied value must be an uploaded file that decodes as an image
\* (ImageAcceptsAnyFile: a FileField in place of the ImageField)
ImageAcceptsAnyFile(data) == Has(data, "image") => data.image.kind = "file"
ImageIsValid(data) ==
    Has(data, "image") => (data.image.kind = "file" /\ data.image.decodes)

\* POST /myproducts/{pk}/upload-image/
ProductViewset_upload_image(caller, pk, data) ==
    /\ Idle /\ UNCHANGED inflight
    /\ request' = [view |-> "myproducts", action |-> "upload_image", user |-> caller,
                   pk |-> pk, data |-> data]
    /\ IF ~IsAuthenticated(caller)
       THEN /\ response' = Reply(HTTP_401_UNAUTHORIZED, EmptyBag)
            /\ UNCHANGED <<db, createdBy>>
       ELSE IF ~GetObjectOk(caller, pk)
       THEN /\ response' = Reply(HTTP_404_NOT_FOUND, EmptyBag)
            /\ UNCHANGED <<db, createdBy>>
       ELSE IF ~ImageIsValid(data)
       THEN /\ response' = Reply(HTTP_400_BAD_REQUEST, EmptyBag)
            /\ UNCHANGED <<db, createdBy>>
       ELSE IF ~Has(data, "image")
       THEN /\ response' = Reply(HTTP_200_OK,
                                 One(ProductImageSerializer(pk, products[pk].image)))
            /\ UNCHANGED <<db, createdBy>>
       ELSE LET path == product_image_file_path(data.image.name, nextId.uuid)
            IN  /\ nextId.uuid <= MaxUploads
                /\ storage' = storage \cup {path}
                /\ products' = [products EXCEPT ![pk].image = path]
                /\ nextId' = [nextId EXCEPT !.uuid = @ + 1]
                /\ response' = Reply(HTTP_200_OK, One(ProductImageSerializer(pk, path)))
                /\ UNCHANGED <<tags, categories, createdBy>>

\* -------------------------------------------------------- MyProductViewset
\* GET /products/: queryset = Product.objects.all(), no get_queryset
MyProductViewset_list(caller) ==
    /\ Idle /\ UNCHANGED inflight
    /\ request' = [view |-> "products", action |-> "list", user |-> caller]
    /\ response' =
        IF ~DefaultPermission(caller) THEN Reply(HTTP_401_UNAUTHORIZED, EmptyBag)
        ELSE Reply(HTTP_200_OK, SerializeMany(ObjectsAll(products),
                                         [id \in DOMAIN products |-> ProductSerializer(id)]))
    /\ UNCHANGED <<db, createdBy>>

\* GET /products/{pk}/
MyProductViewset_retrieve(caller, pk) ==
    /\ Idle /\ UNCHANGED inflight
    /\ request' = [view |-> "products", action |-> "retrieve", user |-> caller,
                   pk |-> pk]
    /\ response' =
        IF ~DefaultPermission(caller) THEN Reply(HTTP_401_UNAUTHORIZED, EmptyBag)
        ELSE IF pk \notin DOMAIN ObjectsAll(products)
        THEN Reply(HTTP_404_NOT_FOUND, EmptyBag)
        ELSE Reply(HTTP_200_OK, One(ProductSerializer(pk)))
    /\ UNCHANGED <<db, createdBy>>

\* ------------------------------------------------------ the entity store
\* Product.categories = ForeignKey('Category', on_delete=SET_NULL, null=True):
\* what deleting category id does to the product table
\* (OnDeleteCascade: on_delete=CASCADE)
OnDeleteCascade(id) ==
    [p \in {q \in DOMAIN products : products[q].categories # id} |-> products[p]]
OnDeleteCategory(id) ==
    [p \in DOMAIN products |->
        IF products[p].categories = id
        THEN [products[p] EXCEPT !.categories = NULL]
        ELSE products[p]]

\* Category.delete() on the store (no route of the router deletes a category)
Category_delete(id) ==
    /\ Idle /\ UNCHANGED inflight
    /\ id \in DOMAIN categories
    /\ categories' = [c \in DOMAIN categories \ {id} |-> categories[c]]
    /\ products' = OnDeleteCategory(id)
    /\ createdBy' = [k \in DOMAIN createdBy \ {<<"category", id>>} |-> createdBy[k]]
    /\ UNCHANGED <<tags, storage, nextId, request, response>>

\* the response has been sent: the server is idle again
finalize_response ==
    /\ ~Idle /\ UNCHANGED inflight
    /\ request' = NoRequest
    /\ response' = NoResponse
    /\ UNCHANGED <<db, createdBy>>

\* ------------------------------------------ product writes, commit by commit
\* Neither ProductViewset nor ProductSerializer opens a transaction, so every
\* statement of a write commits on its own.  ModelSerializer.create inserts
\* the row without its many-to-many values and then calls tags.set(...);
\* ModelSerializer.update saves the row and then calls tags.set(...).  Between
\* the two commits other requests are served from the store as it stands.
\* The actions below are the steps of a write that passes authentication,
\* get_object() and validation (a write that does not changes nothing); the
\* writer's own response is not recorded.

\* the write whose row is committed and whose tags are still to be set
PendingTags(action, user, pk, validated) ==
    IF Has(validated, "tags")
    THEN [step |-> "m2m", action |-> action, user |-> user, pk |-> pk,
          tags |-> validated.tags]
    ELSE NoWrite

\* POST /myproducts/, first commit: Product.objects.create(**validated_data)
ProductViewset_create_save(caller, data, html) ==
    /\ inflight = NoWrite
    /\ IsAuthenticated(caller)
    /\ ProductIsValid(data, html, FALSE)
    /\ LET id == nextId.product
           validated == ValidatedData(data, html, FALSE)
           row == [ProductCreate(validated, SaveUser(caller, data)) EXCEPT !.tags = {}]
       IN  /\ id <= MaxProducts /\ HasRoom
           /\ products' = products @@ (id :> row)
           /\ nextId' = [nextId EXCEPT !.product = id + 1]
           /\ createdBy' = createdBy @@ (<<"product", id>> :> caller)
           /\ inflight' = PendingTags("create", caller, id, validated)
    /\ UNCHANGED <<tags, categories, storage, request, response>>

\* PUT / PATCH /myproducts/{pk}/, first commit: instance.save()
ProductUpdateSave(caller, pk, data, html, partial) ==
    /\ inflight = NoWrite
    /\ IsAuthenticated(caller)
    /\ GetObjectOk(caller, pk)
    /\ ProductIsValid(data, html, partial)
    /\ LET validated == ValidatedData(data, html, partial)
           row == [ProductUpdate(products[pk], validated)
                      EXCEPT !.tags = products[pk].tags]
       IN  /\ products' = [products EXCEPT ![pk] = row]
           /\ inflight' = PendingTags(IF partial THEN "partial_update" ELSE "update",
                                      caller, pk, validated)
    /\ UNCHANGED <<tags, categories, storage, nextId, createdBy, request, response>>

ProductViewset_update_save(caller, pk, data, html) ==
    ProductUpdateSave(caller, pk, data, html, FALSE)

ProductViewset_partial_update_save(caller, pk, data, html) ==
    ProductUpdateSave(caller, pk, data, html, TRUE)

\* second commit of a create, PUT or PATCH: instance.tags.set(value)
ProductSerializer_set_tags ==
    /\ inflight # NoWrite
    /\ products' = [products EXCEPT ![inflight.pk].tags = inflight.tags]
    /\ inflight' = NoWrite
    /\ UNCHANGED <<tags, categories, storage, nextId, createdBy, request, response>>

\* ------------------------------------------------------ request inputs
TagIds == 1..MaxTags
CategoryIds == 1..MaxCategories
ProductKeys == 1..MaxProducts

Cheesecake == [title |-> "Chocolate Cheesecake", time_minutes |-> 30, price |-> 500]
Carbonara == [title |-> "Spagheti Carbonaro", time_minutes |-> 25, price |-> 1000]

\* POST payloads, each with the format it is sent in (TRUE: a multipart
\* form, FALSE: JSON)
CreatePayloads ==
    \* scalars only
    {<<Cheesecake, TRUE>>}
    \* with a category and no tags key, as a form and as JSON
    \cup {<<Cheesecake @@ [categories |-> c], TRUE>> : c \in CategoryIds}
    \cup {<<Cheesecake @@ [categories |-> 1], FALSE>>}
    \* with a category and tags
    \cup {<<Cheesecake @@ [categories |-> 1, tags |-> T], TRUE>> :
             T \in (SUBSET TagIds) \ {{}}}
    \* with an owner field
    \cup {<<Cheesecake @@ [categories |-> 1, user |-> u], TRUE>> : u \in Users}
    \* a blank title, a price of four integer digits, no time_minutes
    \cup {<<[Cheesecake EXCEPT !.title = ""] @@ [categories |-> 1], TRUE>>,
          <<[Cheesecake EXCEPT !.price = 100000] @@ [categories |-> 1], TRUE>>,
          <<[title |-> "Chocolate Cheesecake", price |-> 500, categories |-> 1], TRUE>>}

\* PUT payloads
PutPayloads ==
    {<<Carbonara, TRUE>>}
    \cup {<<Carbonara @@ [categories |-> c], TRUE>> : c \in CategoryIds}
    \cup {<<Carbonara @@ [categories |-> 1], FALSE>>}
    \cup {<<Carbonara @@ [categories |-> 1, tags |-> {1}], TRUE>>}
    \cup {<<Carbonara @@ [categories |-> 1, user |-> u], TRUE>> : u \in Users}

\* PATCH payloads
PatchPayloads ==
    {<<[title |-> ""], TRUE>>}
    \cup {<<[tags |-> T], TRUE>> : T \in (SUBSET TagIds) \ {{}}}
    \cup {<<[tags |-> {}], FALSE>>}
    \cup {<<[categories |-> c], TRUE>> : c \in CategoryIds}
    \cup {<<[user |-> u], TRUE>> : u \in Users}

\* ?tags= and ?categories= : the tokens between the commas
TagsParams == {<<>>, <<"1">>, <<"1", "2">>, <<"x">>}
CategoriesParams == {<<>>, <<"1">>, <<"1", "2">>}

\* upload payloads: a JPEG file, a file that is no image, a plain string in
\* place of the file, and a payload without the image key
UploadPayloads ==
    {[image |-> [kind |-> "file", name |-> <<"photo", "jpg">>, decodes |-> TRUE]],
     [image |-> [kind |-> "file", name |-> <<"notes", "txt">>, decodes |-> FALSE]],
     [image |-> [kind |-> "string", name |-> <<"notimage">>, decodes |-> FALSE]],
     [caption |-> "front"]}

\* ------------------------------------------------------- specification
Init ==
    /\ tags = <<>>
    /\ categories = <<>>
    /\ products = <<>>
    /\ storage = {}
    /\ nextId = [tag |-> 1, category |-> 1, product |-> 1, uuid |-> 1]
    /\ createdBy = <<>>
    /\ request = NoRequest
    /\ response = NoResponse
    /\ inflight = NoWrite

\* The inputs of a request that is turned away before its payload or query
\* is read (no credentials, or a key outside the caller's queryset) are one
\* representative; the others range over the whole input set.
Inputs(reads, all, one) == IF reads THEN all ELSE {one}
Authenticated(caller) == caller # AnonymousUser
Owns(caller, pk) == pk \in DOMAIN products /\ products[pk].user = caller

Next ==
    \/ \E caller \in Callers :
          \E param \in Inputs(Authenticated(caller), AssignedOnlyParams, "1") :
           TagViewSet_list(caller, param)
    \/ \E caller \in Callers :
          \E param \in Inputs(Authenticated(caller), AssignedOnlyParams, "1") :
           CategoryViewSet_list(caller, param)
    \/ \E caller \in Callers :
          \E data \in Inputs(Authenticated(caller), AttrPayloads, [name |-> ""]) :
           TagViewSet_create(caller, data)
    \/ \E caller \in Callers :
          \E data \in Inputs(Authenticated(caller), AttrPayloads, [name |-> ""]) :
           CategoryViewSet_create(caller, data)
    \/ \E caller \in Callers :
          \E q \in Inputs(Authenticated(caller), TagsParams \X CategoriesParams,
                       <<<<"1">>, <<>>>>) :
           ProductViewset_list(caller, q[1], q[2])
    \/ \E caller \in Callers, pk \in ProductKeys : ProductViewset_retrieve(caller, pk)
    \/ \E caller \in Callers :
          \E w \in Inputs(Authenticated(caller), CreatePayloads,
                       <<[title |-> "", time_minutes |-> 30, price |-> 500], TRUE>>) :
           ProductViewset_create(caller, w[1], w[2])
    \/ \E caller \in Callers, pk \in ProductKeys :
          \E w \in Inputs(Owns(caller, pk), PutPayloads,
                       <<Carbonara @@ [categories |-> 1, user |-> caller], TRUE>>) :
           ProductViewset_update(caller, pk, w[1], w[2])
    \/ \E caller \in Callers, pk \in ProductKeys :
          \E w \in Inputs(Owns(caller, pk), PatchPayloads, <<[user |-> caller], TRUE>>) :
           ProductViewset_partial_update(caller, pk, w[1], w[2])
    \/ \E caller \in Callers, pk \in ProductKeys : ProductViewset_destroy(caller, pk)
    \/ \E caller \in Callers, pk \in ProductKeys :
          \E data \in Inputs(Owns(caller, pk), UploadPayloads,
                          [image |-> [kind |-> "file", name |-> <<"photo", "jpg">>,
                                      decodes |-> TRUE]]) :
           ProductViewset_upload_image(caller, pk, data)
    \/ \E caller \in Callers : MyProductViewset_list(caller)
    \/ \E caller \in Callers, pk \in ProductKeys : MyProductViewset_retrieve(caller, pk)
    \/ \E id \in CategoryIds : Category_delete(id)
    \/ finalize_response

Spec == Init /\ [][Next]_vars

\* Requests served side by side: the product writes go commit by commit,
\* and between the commits of one write the lists and detail reads of both
\* product routes (and tag and category creates) are served.
ReadParams == {<<<<>>, <<>>>>, <<<<"1">>, <<>>>>}

ConcurrentNext ==
    \/ \E caller \in Users : TagViewSet_create(caller, [name |-> "Vegan"])
    \/ \E caller \in Users : CategoryViewSet_create(caller, [name |-> "Vegan"])
    \/ \E caller \in Users, w \in CreatePayloads :
           ProductViewset_create_save(caller, w[1], w[2])
    \/ \E caller \in Users, pk \in ProductKeys, w \in PutPayloads :
           ProductViewset_update_save(caller, pk, w[1], w[2])
    \/ \E caller \in Users, pk \in ProductKeys, w \in PatchPayloads :
           ProductViewset_partial_update_save(caller, pk, w[1], w[2])
    \/ ProductSerializer_set_tags
    \/ \E caller \in Users, q \in ReadParams : ProductViewset_list(caller, q[1], q[2])
    \/ \E caller \in Users, pk \in ProductKeys : ProductViewset_retrieve(caller, pk)
    \/ \E caller \in Callers : MyProductViewset_list(caller)
    \/ \E caller \in Callers, pk \in ProductKeys : MyProductViewset_retrieve(caller, pk)
    \/ finalize_response

ConcurrentSpec == Init /\ [][ConcurrentNext]_vars

\* ================================================================ claims
TableOf(view) == IF view = "tags" THEN tags
                 ELSE IF view = "categories" THEN categories ELSE products
KindOf(view) == IF view = "tags" THEN "tag"
                ELSE IF view = "categories" THEN "category" ELSE "product"
Served(view, action) == request.view = view /\ request.action = action
ByUser == request.user \in Users

\* C1: for users A # B, on every route (tags, categories, myproducts,
\* products) a LIST answered to B holds no row created by A, and a detail
\* lookup by B of a product created by A is answered 404.
C1_IsolationOnEveryRoute ==
    /\ (request.action = "list" /\ ByUser) =>
          \A row \in BagToSet(response.data) :
              createdBy[<<KindOf(request.view), row.id>>] = request.user
    /\ (request.action = "retrieve" /\ ByUser /\ request.pk \in DOMAIN products
          /\ createdBy[<<"product", request.pk>>] # request.user) =>
          response.status = HTTP_404_NOT_FOUND

\* C2: a LIST without valid credentials is answered 401 with no rows, on
\* every route that lists tags, categories or products.
C2_ListRequiresCredentials ==
    (request.action = "list" /\ request.user = AnonymousUser) =>
        (response.status = HTTP_401_UNAUTHORIZED /\ response.data = EmptyBag)

\* C3: every Tag, Category and Product row has one owner, a user, and it is
\* the principal whose CREATE request inserted the row, whatever owner field
\* the create payload carried and whatever PUT or PATCH came later.
C3_OwnerIsCreator ==
    /\ \A id \in DOMAIN tags :
          tags[id].user \in Users /\ tags[id].user = createdBy[<<"tag", id>>]
    /\ \A id \in DOMAIN categories :
          categories[id].user \in Users
          /\ categories[id].user = createdBy[<<"category", id>>]
    /\ \A id \in DOMAIN products :
          products[id].user \in Users
          /\ products[id].user = createdBy[<<"product", id>>]

\* a PATCH that carries another user as owner field has been accepted
C3_Witness ==
    /\ Served("myproducts", "partial_update") /\ ByUser
    /\ response.status = HTTP_200_OK
    /\ Has(request.data, "user") /\ request.data.user # request.user

\* C4: an authenticated product CREATE whose payload is a non-blank title, a
\* time_minutes and a well-formed price, and nothing else, is answered 201
\* and the product it names is stored with these values, no category and no
\* tags.
C4_BasicCreateSucceeds ==
    (/\ Served("myproducts", "create") /\ ByUser
     /\ DOMAIN request.data = {"title", "time_minutes", "price"}
     /\ request.data.title # "" /\ DecimalOk(request.data.price))
    => /\ response.status = HTTP_201_CREATED
       /\ \E row \in BagToSet(response.data) :
             /\ row.id \in DOMAIN products
             /\ products[row.id].title = request.data.title
             /\ products[row.id].time_minutes = request.data.time_minutes
             /\ products[row.id].price = request.data.price
             /\ products[row.id].categories = NULL
             /\ products[row.id].tags = {}

\* C5: a CREATE of a tag, a category or a product whose name/title is blank
\* is answered 400 to a caller who is let through to validation, and whoever
\* sends it, it leaves every table, every product-tag association and the
\* object store as they were.
BlankCreate(req) ==
    /\ req.action = "create"
    /\ IF req.view = "myproducts"
       THEN Has(req.data, "title") /\ req.data.title = ""
       ELSE Has(req.data, "name") /\ req.data.name = ""
C5_BlankNameRejected ==
    [][BlankCreate(request') =>
          /\ db' = db
          /\ request'.user \in Users => response'.status = HTTP_400_BAD_REQUEST]_vars

\* a blank-title product create has been refused while the store holds rows
C5_Witness ==
    /\ BlankCreate(request) /\ ByUser /\ request.view = "myproducts"
    /\ response.status = HTTP_400_BAD_REQUEST
    /\ products # <<>> /\ tags # <<>>

\* C6: a PUT on an owned product with the payload {title, time_minutes,
\* price} and no tags key leaves the product with these three values and
\* with no tags.
C6_PutWithoutTagsClearsTags ==
    (/\ Served("myproducts", "update") /\ ByUser
     /\ DOMAIN request.data = {"title", "time_minutes", "price"}
     /\ request.pk \in DOMAIN products
     /\ products[request.pk].user = request.user)
    => /\ products[request.pk].title = request.data.title
       /\ products[request.pk].time_minutes = request.data.time_minutes
       /\ products[request.pk].price = request.data.price
       /\ products[request.pk].tags = {}

\* C7: the product LIST of /myproducts with well-formed tags= and/or
\* categories= is answered 200 with exactly the caller's products that carry
\* one of the given tags (if tags is given) and whose category is one of the
\* given categories (if categories is given).
Ids(param) == {IntOf[param[i]] : i \in 1..Len(param)}
C7_Matches(p) ==
    /\ products[p].user = request.user
    /\ request.tags # <<>> => products[p].tags \cap Ids(request.tags) # {}
    /\ request.categories # <<>> => products[p].categories \in Ids(request.categories)
C7_FilterIsExact ==
    (/\ Served("myproducts", "list") /\ ByUser
     /\ ParamsOk(request.tags) /\ ParamsOk(request.categories))
    => /\ response.status = HTTP_200_OK
       /\ BagToSet(response.data) =
             {ProductSerializer(p) : p \in {q \in DOMAIN products : C7_Matches(q)}}

\* both filters given, a product of the caller returned and another product
\* of the caller left out
C7_Witness ==
    /\ Served("myproducts", "list") /\ ByUser
    /\ request.tags = <<"1", "2">> /\ request.categories # <<>>
    /\ response.status = HTTP_200_OK
    /\ response.data # EmptyBag
    /\ \E p \in DOMAIN products :
          /\ products[p].user = request.user
          /\ ProductSerializer(p) \notin BagToSet(response.data)

\* C8: a tag or category LIST with assigned_only=1 is answered with the
\* caller's tags/categories that at least one product references, each of
\* them exactly once.
C8_Referenced(view, id) ==
    \E p \in DOMAIN products :
        IF view = "tags" THEN id \in products[p].tags ELSE products[p].categories = id
C8_AssignedOnlyIsExact ==
    (/\ request.view \in {"tags", "categories"} /\ request.action = "list" /\ ByUser
     /\ request.assigned_only = "1")
    => /\ response.status = HTTP_200_OK
       /\ response.data =
             SetToBag({[id |-> id, name |-> TableOf(request.view)[id].name] :
                 id \in {i \in DOMAIN TableOf(request.view) :
                            /\ TableOf(request.view)[i].user = request.user
                            /\ C8_Referenced(request.view, i)}})

\* a tag that two products carry has been listed
C8_Witness ==
    /\ Served("tags", "list") /\ ByUser /\ request.assigned_only = "1"
    /\ \E row \in BagToSet(response.data) :
          Cardinality({p \in DOMAIN products : row.id \in products[p].tags}) >= 2

\* C9: IMAGE UPLOAD on an owned product.  A file that is an image is
\* answered 200 and the product's image becomes a path that was not in the
\* object store before and is in it now; a payload that is no image is
\* answered 400 and the product's image and the object store stay as they
\* were.
C9_UploadOnOwned(req) ==
    /\ req.view = "myproducts" /\ req.action = "upload_image"
    /\ Owns(req.user, req.pk)
    /\ Has(req.data, "image")
C10_NoDanglingCategory ==
    \A p \in DOMAIN products :
        products[p].categories = NULL \/ products[p].categories \in DOMAIN categories
C10_CategoryDeleteSetsNull ==
    /\ []C10_NoDanglingCategory
    /\ [][\A c \in DOMAIN categories \ DOMAIN categories' :
             /\ DOMAIN products' = DOMAIN products
             /\ \A p \in DOMAIN products :
                   products'[p] =
                       IF products[p].categories = c
                       THEN [products[p] EXCEPT !.categories = NULL]
                       ELSE products[p]]_vars

\* a category has been deleted and a product with tags is left with no
\* category
C10_Witness ==
    /\ \E c \in CategoryIds : c \notin DOMAIN categories /\ nextId.category > c
    /\ \E p \in DOMAIN products :
          products[p].categories = NULL /\ products[p].tags # {}

\* C11: a product write (create, PUT, PATCH) is atomic for the requests
\* served beside it: no list or detail read of a product route that is served
\* while the row of a write is committed returns that product with tags other
\* than the ones the write specifies.
C11_Reads(req) ==
    /\ req.view \in {"myproducts", "products"}
    /\ req.action \in {"list", "retrieve"}
C11_TagsOf(req, row) ==
    IF req.view = "myproducts" /\ req.action = "retrieve"
    THEN {t.id : t \in row.tags}
    ELSE row.tags
C11_WritesAreAtomic ==
    [][(Idle /\ C11_Reads(request') /\ inflight # NoWrite) =>
          \A row \in BagToSet(response'.data) :
              row.id = inflight.pk => C11_TagsOf(request', row) = inflight.tags]_vars

\* C12: every tag of a product, and the product's category when it has one,
\* belongs to the user the product belongs to; and a product CREATE, PUT or
\* PATCH of a caller that names a tag or category of another user is answered
\* 400.
C12_NamesForeignRow(req) ==
    \/ /\ Has(req.data, "categories") /\ req.data.categories \in DOMAIN categories
       /\ categories[req.data.categories].user # req.user
    \/ /\ Has(req.data, "tags")
       /\ \E t \in req.data.tags \cap DOMAIN tags : tags[t].user # req.user
C12_LinksAreSameOwner ==
    /\ \A p \in DOMAIN products :
          /\ \A t \in products[p].tags \cap DOMAIN tags :
                tags[t].user = products[p].user
          /\ products[p].categories \in DOMAIN categories =>
                categories[products[p].categories].user = products[p].user
    /\ (/\ request.view = "myproducts" /\ ByUser
        /\ request.action \in {"create", "update", "partial_update"}
        /\ response.status \notin {HTTP_401_UNAUTHORIZED, HTTP_404_NOT_FOUND}
        /\ C12_NamesForeignRow(request))
       => response.status = HTTP_400_BAD_REQUEST

\* C13: no product is twice in the body of a product LIST, whatever tags=
\* filter is given.
C13_ListHasNoDuplicates ==
    (request.view \in {"myproducts", "products"} /\ request.action = "list")
    => \A row \in BagToSet(response.data) : CopiesIn(row, response.data) = 1

====
